---------------------------- MODULE Spec2Model ----------------------------
(***************************************************************************)
(* A model of warehousefilebrowser/__init__.py: the memoised archive       *)
(* fetcher _get_file, the four entry classes and their read_file methods,  *)
(* the listing classifier _iter_simple_entries and the two request         *)
(* handlers project and dist_file.                                         *)
(*                                                                         *)
(* Strings that the code splits, joins or compares by suffix are sequences *)
(* of one-character strings, so that str.split, str.rsplit, str.endswith   *)
(* and str.format are computed as Python computes them.                    *)
(***************************************************************************)
EXTENDS Naturals, Sequences, FiniteSets

VARIABLES
    lru,        \* the keys of alru_cache's OrderedDict, least recently used first
    futs,       \* the futures alru_cache created that are cached or awaited
    proc,       \* per coroutine: where it is and what it holds
    hist,       \* history: what the callers of _get_file have observed, per URL
    links,      \* the parsed archive links _iter_simple_entries works on
    entries     \* the list _iter_simple_entries returns

vars == <<lru, futs, proc, hist, links, entries>>

---------------------------------------------------------------------------
(* Python's string operations, on sequences of characters.                 *)

Min(a, b) == IF a < b THEN a ELSE b

\* s.endswith(suffix)
endswith(s, suffix) ==
    /\ Len(s) >= Len(suffix)
    /\ SubSeq(s, Len(s) - Len(suffix) + 1, Len(s)) = suffix

\* the positions of the one-character separator sep in s
Positions(s, sep) == {i \in 1..Len(s) : s[i] = sep}

SetMin(S) == CHOOSE x \in S : \A y \in S : x <= y
SetMax(S) == CHOOSE x \in S : \A y \in S : x >= y

\* s.split(sep, maxsplit): splits at the leftmost separators
RECURSIVE split(_, _, _)
split(s, sep, maxsplit) ==
    IF maxsplit = 0 \/ Positions(s, sep) = {}
    THEN <<s>>
    ELSE LET i == SetMin(Positions(s, sep))
         IN  <<SubSeq(s, 1, i - 1)>> \o split(SubSeq(s, i + 1, Len(s)), sep, maxsplit - 1)

\* s.rsplit(sep, maxsplit): splits at the rightmost separators
RECURSIVE rsplit(_, _, _)
rsplit(s, sep, maxsplit) ==
    IF maxsplit = 0 \/ Positions(s, sep) = {}
    THEN <<s>>
    ELSE LET i == SetMax(Positions(s, sep))
         IN  rsplit(SubSeq(s, 1, i - 1), sep, maxsplit - 1) \o <<SubSeq(s, i + 1, Len(s))>>

\* sep.join(parts), parts not empty
RECURSIVE join(_, _)
join(sep, parts) ==
    IF Len(parts) = 1
    THEN parts[1]
    ELSE parts[1] \o sep \o join(sep, Tail(parts))

\* parts[:n]
Slice(parts, n) == SubSeq(parts, 1, Min(n, Len(parts)))

\* reversed(s)
reversed(s) == [i \in 1..Len(s) |-> s[Len(s) + 1 - i]]

---------------------------------------------------------------------------
(* The string literals of the source.                                      *)

DOT == "."
DASH == "-"
SLASH == <<"/">>
WHL == <<".", "w", "h", "l">>
TAR_GZ == <<".", "t", "a", "r", ".", "g", "z">>
ZIP == <<".", "z", "i", "p">>
DIST_INFO_METADATA ==
    <<".", "d", "i", "s", "t", "-", "i", "n", "f", "o", "/", "M", "E", "T", "A", "D", "A", "T", "A">>
METADATA == <<"M", "E", "T", "A", "D", "A", "T", "A">>
PYPROJECT_TOML == <<"p", "y", "p", "r", "o", "j", "e", "c", "t", ".", "t", "o", "m", "l">>
SETUP_CFG == <<"s", "e", "t", "u", "p", ".", "c", "f", "g">>
SETUP_PY == <<"s", "e", "t", "u", "p", ".", "p", "y">>

---------------------------------------------------------------------------
(* The entry classes.                                                      *)

\* _Entry.filename
filename(entry) == entry.link.filename

\* useful_filenames of each class, as the list the source writes
useful_filenames(cls) ==
    CASE cls = "Wheel" -> <<METADATA>>
      [] cls = "TarGzSdist" -> <<PYPROJECT_TOML, SETUP_CFG, SETUP_PY>>
      [] cls = "ZipSdist" -> <<PYPROJECT_TOML, SETUP_CFG, SETUP_PY>>
      [] cls = "UnsupportedEntry" -> <<>>

\* x in list
In(x, list) == \E i \in 1..Len(list) : list[i] = x

\* _Entry.stem, overridden by TarGzSdist.stem
stem(entry) ==
    IF entry.cls = "TarGzSdist"
    THEN rsplit(filename(entry), DOT, 2)[1]
    ELSE rsplit(filename(entry), DOT, 1)[1]

\* _find_metadata_in_wheel: the member path computed from the wheel's filename
find_metadata_in_wheel(wheel_filename) ==
    join(<<DASH>>, Slice(split(wheel_filename, DASH, 2), 2)) \o DIST_INFO_METADATA

\* a mutant of entry_cls: the sdist suffix tested is ".gz"
entry_cls_gz(name) ==
    IF endswith(name, WHL) THEN "Wheel"
    ELSE IF endswith(name, <<".", "g", "z">>) THEN "TarGzSdist"
    ELSE IF endswith(name, ZIP) THEN "ZipSdist"
    ELSE "UnsupportedEntry"

\* the if/elif chain of _iter_simple_entries that picks entry_cls
entry_cls(name) ==
    IF endswith(name, WHL) THEN "Wheel"
    ELSE IF endswith(name, TAR_GZ) THEN "TarGzSdist"
    ELSE IF endswith(name, ZIP) THEN "ZipSdist"
    ELSE "UnsupportedEntry"

\* the for loop of _iter_simple_entries over an already reversed list
RECURSIVE append_entries(_, _, _)
append_entries(acc, project, rev) ==
    IF rev = <<>>
    THEN acc
    ELSE append_entries(
             Append(acc, [cls |-> entry_cls(rev[1].filename),
                          project |-> project,
                          link |-> rev[1]]),
             project, Tail(rev))

\* _iter_simple_entries once the listing has been parsed into links
iter_simple_entries(project, parsed) ==
    append_entries(<<>>, project, reversed(parsed))


---------------------------------------------------------------------------
(* The inputs: coroutines, archive links, and what the network answers.    *)

Procs == {"p1", "p2"}

PROJECT == "p"

F_WHL == <<"p", "-", "1", "-", "a", ".", "w", "h", "l">>
F_TGZ == <<"p", "-", "1", ".", "0", ".", "t", "a", "r", ".", "g", "z">>
F_ZIP == <<"p", "-", "1", ".", "0", ".", "z", "i", "p">>
F_EXE == <<"p", "-", "1", ".", "0", ".", "e", "x", "e">>

L_WHL == [filename |-> F_WHL, url |-> "u/whl"]
L_TGZ == [filename |-> F_TGZ, url |-> "u/tgz"]
L_ZIP == [filename |-> F_ZIP, url |-> "u/zip"]
L_EXE == [filename |-> F_EXE, url |-> "u/exe"]

Urls == {"u/whl", "u/tgz", "u/zip"}

\* member paths found in the archives served
P_META == <<"p", "-", "1">> \o DIST_INFO_METADATA
P_META_ODD == <<"p", "_", "1">> \o DIST_INFO_METADATA
P_NESTED == <<"p", "-", "1", ".", "0">> \o SLASH \o SETUP_PY
P_SHORT == <<"p", "-", "1">> \o SLASH \o SETUP_PY

\* a response body: its container format and the members it holds
Blob(name) ==
    CASE name = "whl_meta" ->
            [fmt |-> "zip", members |-> {[name |-> P_META, data |-> "meta"],
                                         [name |-> SETUP_PY, data |-> "w_setup"]}]
      [] name = "whl_odd" ->
            [fmt |-> "zip", members |-> {[name |-> P_META_ODD, data |-> "meta_odd"],
                                         [name |-> METADATA, data |-> "meta_top"]}]
      [] name = "tgz_both" ->
            [fmt |-> "tgz", members |-> {[name |-> SETUP_PY, data |-> "t_bare"],
                                         [name |-> P_NESTED, data |-> "t_nested"]}]
      [] name = "tgz_nested" ->
            [fmt |-> "tgz", members |-> {[name |-> P_NESTED, data |-> "t_nested2"],
                                         [name |-> P_SHORT, data |-> "t_short2"]}]
      [] name = "tgz_other" ->
            [fmt |-> "tgz", members |-> {[name |-> P_SHORT, data |-> "t_short"]}]
      [] name = "zip_bare" ->
            [fmt |-> "zip", members |-> {[name |-> SETUP_PY, data |-> "z_bare"],
                                         [name |-> P_NESTED, data |-> "z_nested"]}]
      [] name = "zip_nested" ->
            [fmt |-> "zip", members |-> {[name |-> P_NESTED, data |-> "z_nested2"]}]
      [] OTHER -> [fmt |-> "bad", members |-> {}]

PENDING == "PENDING"
\* client.get raised (a transport error): the task ends with an exception,
\* which the future keeps (cache_exceptions is left at its default)
FAILED == "FAILED"

\* how client.get(url) can end: the bodies the server may answer with (r.content
\* is taken whatever the status), and for one url a transport error
Net(url) ==
    CASE url = "u/whl" -> {"whl_meta", "whl_odd"}
      [] url = "u/tgz" -> {"tgz_both", "tgz_nested", "tgz_other", "html"}
      [] url = "u/zip" -> {"zip_bare", "zip_nested", FAILED}
      [] OTHER -> {"html"}

---------------------------------------------------------------------------
(* _get_file: alru_cache(maxsize) around the network call.  The cache is   *)
(* an OrderedDict from the url to the future of the task that fetches it;  *)
(* the future is stored when the call is made, not when it completes.      *)

\* alru_cache(maxsize=128) in the source; the model is parametric in the
\* capacity and is checked at a small one
maxsize == 2

InCache(url) == In(url, lru)

Remove(seq, x) == SelectSeq(seq, LAMBDA y : y # x)

\* OrderedDict.move_to_end(key)
move_to_end(seq, key) == Append(Remove(seq, key), key)

\* cache[key]
CacheGet(fs, url) == CHOOSE f \in fs : f.cached /\ f.url = url

\* a future leaves the OrderedDict; it lives on while coroutines await it
Drop(fs, url) ==
    LET f == CacheGet(fs, url)
    IN  IF f.waiters = {}
        THEN fs \ {f}
        ELSE (fs \ {f}) \cup {[f EXCEPT !.cached = FALSE]}

\* a mutant of alru_hit: a cache hit does not refresh the key's recency
alru_hit_no_refresh(url, p) ==
    LET f == CacheGet(futs, url)
    IN  IF f.val # PENDING
        THEN [outcome |-> "hit", val |-> f.val, lru |-> lru,
              futs |-> futs, evicted |-> {}]
        ELSE [outcome |-> "wait", val |-> PENDING, lru |-> lru,
              futs |-> (futs \ {f}) \cup {[f EXCEPT !.waiters = @ \cup {p}]},
              evicted |-> {}]

\* a mutant of alru_hit: a call that finds a pending future starts a task of
\* its own instead of awaiting the one that is running
alru_hit_no_coalesce(url, p) ==
    LET f == CacheGet(futs, url)
    IN  IF f.val # PENDING
        THEN [outcome |-> "hit", val |-> f.val, lru |-> move_to_end(lru, url),
              futs |-> futs, evicted |-> {}]
        ELSE [outcome |-> "miss", val |-> PENDING, lru |-> move_to_end(lru, url),
              futs |-> Drop(futs, url) \cup
                       {[url |-> url, cached |-> TRUE, val |-> PENDING, waiters |-> {p}]},
              evicted |-> {}]

\* the key is in the cache: _cache_hit moves it to the end; a finished future
\* gives its result at once, a pending one is awaited
alru_hit(url, p) ==
    LET f == CacheGet(futs, url)
    IN  IF f.val # PENDING
        THEN [outcome |-> "hit", val |-> f.val, lru |-> move_to_end(lru, url),
              futs |-> futs, evicted |-> {}]
        ELSE [outcome |-> "wait", val |-> PENDING, lru |-> move_to_end(lru, url),
              futs |-> (futs \ {f}) \cup {[f EXCEPT !.waiters = @ \cup {p}]},
              evicted |-> {}]

\* the key is not in the cache: a task is created for the wrapped coroutine
\* (which issues client.get), its future is stored at the end, and
\* popitem(last=False) removes the first key when the size exceeds maxsize
alru_miss(url, p) ==
    LET new == [url |-> url, cached |-> TRUE, val |-> PENDING, waiters |-> {p}]
        stored == Append(lru, url)
        over == Len(stored) > maxsize
    IN  [outcome |-> "miss", val |-> PENDING,
         lru |-> IF over THEN Tail(stored) ELSE stored,
         futs |-> IF over THEN Drop(futs \cup {new}, Head(stored)) ELSE futs \cup {new},
         evicted |-> IF over THEN {Head(stored)} ELSE {}]

\* a mutant of get_file: the cache is never consulted
get_file_uncached(url, p) ==
    LET r == alru_miss(url, p)
    IN  IF InCache(url)
        THEN [r EXCEPT !.lru = move_to_end(lru, url),
                       !.futs = Drop(futs, url) \cup
                                {[url |-> url, cached |-> TRUE, val |-> PENDING, waiters |-> {p}]},
                       !.evicted = {}]
        ELSE r

\* a call _get_file(url) by coroutine p, up to its first suspension
get_file(url, p) ==
    IF InCache(url) THEN alru_hit(url, p) ELSE alru_miss(url, p)

\* the futures after coroutine p, awaiting a finished future, is resumed
Woken(p) ==
    LET f == CHOOSE g \in futs : p \in g.waiters
        w == f.waiters \ {p}
    IN  IF w = {} /\ ~f.cached
        THEN futs \ {f}
        ELSE (futs \ {f}) \cup {[f EXCEPT !.waiters = w]}

\* the result of the future coroutine p awaits
Awaited(p) == (CHOOSE g \in futs : p \in g.waiters).val

Ready(p) == \E g \in futs : p \in g.waiters /\ g.val # PENDING

---------------------------------------------------------------------------
(* Reading one member out of the fetched bytes.  A result is the exception *)
(* raised ("none" when the call returns), the bytes returned, and the      *)
(* member paths looked up, in order.                                       *)

Result(exc, data, tried) == [exc |-> exc, data |-> data, tried |-> tried]

\* the members of an archive that carry a given path
Named(members, path) == {m \in members : m.name = path}

\* a mutant of allowed: Wheel.read_file tests the name against nothing
allowed_any_in_wheel(cls, name) ==
    CASE cls = "Wheel" -> TRUE
      [] cls = "TarGzSdist" -> In(name, useful_filenames(cls))
      [] cls = "ZipSdist" -> In(name, useful_filenames(cls))
      [] cls = "UnsupportedEntry" -> FALSE

\* the test each read_file makes before it fetches anything; when it fails
\* the method raises FileNotFoundError
allowed(cls, name) ==
    CASE cls = "Wheel" -> name = METADATA
      [] cls = "TarGzSdist" -> In(name, useful_filenames(cls))
      [] cls = "ZipSdist" -> In(name, useful_filenames(cls))
      [] cls = "UnsupportedEntry" -> FALSE

\* Wheel.read_file after the fetch: zipfile.ZipFile raises BadZipFile on bytes
\* that are no zip file, and zf.open(name) raises KeyError for a missing member
wheel_read(entry, content) ==
    LET blob == Blob(content)
        name == find_metadata_in_wheel(filename(entry))
    IN  IF blob.fmt # "zip" THEN Result("BadZipFile", "none", <<>>)
        ELSE IF Named(blob.members, name) = {} THEN Result("KeyError", "none", <<name>>)
        ELSE Result("none", (CHOOSE m \in Named(blob.members, name) : TRUE).data, <<name>>)

\* a mutant of zip_read: a missing member is looked up under the stem as well
zip_read_with_fallback(entry, content, arcname) ==
    LET blob == Blob(content)
        nested == stem(entry) \o SLASH \o arcname
    IN  IF blob.fmt # "zip" THEN Result("BadZipFile", "none", <<>>)
        ELSE IF Named(blob.members, arcname) # {}
        THEN Result("none", (CHOOSE m \in Named(blob.members, arcname) : TRUE).data, <<arcname>>)
        ELSE IF Named(blob.members, nested) # {}
        THEN Result("none", (CHOOSE m \in Named(blob.members, nested) : TRUE).data,
                    <<arcname, nested>>)
        ELSE Result("FileNotFoundError", "none", <<arcname, nested>>)

\* ZipSdist.read_file after the fetch: the KeyError of zf.getinfo(filename) is
\* turned into FileNotFoundError
zip_read(entry, content, arcname) ==
    LET blob == Blob(content)
    IN  IF blob.fmt # "zip" THEN Result("BadZipFile", "none", <<>>)
        ELSE IF Named(blob.members, arcname) = {}
        THEN Result("FileNotFoundError", "none", <<arcname>>)
        ELSE Result("none", (CHOOSE m \in Named(blob.members, arcname) : TRUE).data, <<arcname>>)

\* a mutant of find_file_in_tgz: the path under the stem is tried first
find_file_in_tgz_stem_first(members, sdist_stem, arcname) ==
    LET nested == sdist_stem \o SLASH \o arcname
    IN  IF Named(members, nested) # {}
        THEN [exc |-> "none", found |-> Named(members, nested), tried |-> <<nested>>]
        ELSE IF Named(members, arcname) # {}
        THEN [exc |-> "none", found |-> Named(members, arcname), tried |-> <<nested, arcname>>]
        ELSE [exc |-> "FileNotFoundError", found |-> {}, tried |-> <<nested, arcname>>]

\* _find_file_in_tgz: tf.getmember(arcname), then
\* tf.getmember("{}/{}".format(sdist_stem, arcname)), then FileNotFoundError
find_file_in_tgz(members, sdist_stem, arcname) ==
    LET nested == sdist_stem \o SLASH \o arcname
    IN  IF Named(members, arcname) # {}
        THEN [exc |-> "none", found |-> Named(members, arcname), tried |-> <<arcname>>]
        ELSE IF Named(members, nested) # {}
        THEN [exc |-> "none", found |-> Named(members, nested), tried |-> <<arcname, nested>>]
        ELSE [exc |-> "FileNotFoundError", found |-> {}, tried |-> <<arcname, nested>>]

\* a mutant of TemporaryDirectoryExit: the directory is removed only when the
\* block ends without an exception
TemporaryDirectoryExitOnSuccess(exc) == exc # "none"

\* whether the temporary directory is still held after the with block of
\* TarGzSdist.read_file is left, with or without an exception
TemporaryDirectoryExit(exc) == FALSE

\* a mutant of handler_catches: the handlers catch every exception of the query
handler_catches_all(exc) == TRUE

\* the except clause around _iter_simple_entries in project and dist_file
handler_catches(exc) == exc = "HTTPStatusError"

---------------------------------------------------------------------------
(* The state of a coroutine, and the history kept for the cache's callers. *)

NoEntry == [cls |-> "none", project |-> "none",
            link |-> [filename |-> <<>>, url |-> "none"]]

NoResp == [status |-> 0, body |-> "none"]

IdleProc ==
    [pc |-> "idle", handler |-> "none", dist |-> <<>>, arcname |-> <<>>,
     listing |-> "none", entry |-> NoEntry, url |-> "none", content |-> "none",
     td |-> FALSE, tdfiles |-> {}, tried |-> <<>>, queries |-> 0, fetches |-> 0,
     resp |-> NoResp, raised |-> "none"]

\* history of one call of _get_file: what its caller had seen of the url
\* before, and which other calls for the url ran while it did
NoCall ==
    [prior |-> "none", priorFresh |-> "none", wasRecent |-> FALSE,
     wasUsed |-> FALSE, stale |-> FALSE, concurrent |-> {}, overlap |-> {},
     concVals |-> {}, shareVals |-> {}]

HistInit ==
    [completed |-> [u \in Urls |-> "none"],
     fresh |-> [u \in Urls |-> "none"],
     recency |-> <<>>,
     call |-> [p \in Procs |-> NoCall]]

\* the (at most maxsize) most recently requested urls of a request history
MRU(rec) == {rec[i] : i \in (Len(rec) - Min(maxsize, Len(rec)) + 1)..Len(rec)}

Init ==
    /\ lru = <<>>
    /\ futs = {}
    /\ proc = [p \in Procs |-> IdleProc]
    /\ hist = HistInit
    /\ links = <<>>
    /\ entries = <<>>

---------------------------------------------------------------------------
(* Coroutines that call _get_file directly.                                *)

\* the history after coroutine p has called _get_file(url) with result r
HistCall(p, url, r) ==
    LET inflight == {q \in Procs \ {p} : proc[q].pc = "fetching" /\ proc[q].url = url}
        conc == IF r.outcome = "hit" THEN {} ELSE inflight
        over == {q \in conc : ~hist.call[q].stale}
        mine == [prior |-> hist.completed[url],
                 priorFresh |-> hist.fresh[url],
                 wasRecent |-> url \in MRU(hist.recency),
                 wasUsed |-> In(url, hist.recency),
                 stale |-> FALSE,
                 concurrent |-> conc,
                 overlap |-> over,
                 concVals |-> IF r.outcome = "hit" THEN {r.val} ELSE {},
                 shareVals |-> IF r.outcome = "hit" THEN {r.val} ELSE {}]
        seen(u, old) == IF u \in r.evicted THEN "none"
                        ELSE IF u = url /\ r.outcome = "hit" THEN r.val
                        ELSE old
    IN  [completed |-> [u \in Urls |-> seen(u, hist.completed[u])],
         fresh |-> [u \in Urls |-> seen(u, hist.fresh[u])],
         recency |-> move_to_end(hist.recency, url),
         call |-> [q \in Procs |->
                    IF q = p THEN mine
                    ELSE [hist.call[q] EXCEPT
                            !.concurrent = IF q \in conc THEN @ \cup {p} ELSE @ \ {p},
                            !.overlap = IF q \in over THEN @ \cup {p} ELSE @ \ {p},
                            !.stale = @ \/ (proc[q].pc = "fetching"
                                            /\ proc[q].url \in r.evicted)]]]

\* the history after coroutine p's call returned v
HistReturn(p, v) ==
    LET c == hist.call[p]
        url == proc[p].url
    IN  [hist EXCEPT
           !.completed[url] = v,
           !.fresh[url] = IF c.stale THEN @ ELSE v,
           !.call = [q \in Procs |->
                      [hist.call[q] EXCEPT
                         !.concVals = IF q = p \/ q \in c.concurrent THEN @ \cup {v} ELSE @,
                         !.shareVals = IF q = p \/ q \in c.overlap THEN @ \cup {v} ELSE @]]]

\* a coroutine calls _get_file(url)
Call(p, url) ==
    /\ proc[p].pc \in {"idle", "got"}
    /\ proc[p].handler = "none"
    /\ LET r == get_file(url, p)
       IN  /\ lru' = r.lru
           /\ futs' = r.futs
           /\ proc' = [proc EXCEPT ![p] =
                         [IdleProc EXCEPT
                            !.pc = IF r.outcome = "hit" THEN "got" ELSE "fetching",
                            !.url = url,
                            !.fetches = IF r.outcome = "miss" THEN 1 ELSE 0,
                            !.content = IF r.outcome = "hit" THEN r.val ELSE "none"]]
           /\ hist' = HistCall(p, url, r)
    /\ UNCHANGED <<links, entries>>

\* no coroutine is between two suspension points: the event loop is free to
\* run another callback (the steps of TarGzSdist.read_file after its await
\* contain no await, and run to the end before anything else does)
Quiet == \A q \in Procs : proc[q].pc \notin {"tgz_enter", "tgz_held", "tgz_extracted"}

\* the task of a pending future ends: client.get answered, or raised
TaskDone(f, v) ==
    /\ f \in futs
    /\ f.val = PENDING
    /\ v \in Net(f.url)
    /\ Quiet
    /\ futs' = (futs \ {f}) \cup {[f EXCEPT !.val = v]}
    /\ UNCHANGED <<lru, proc, hist, links, entries>>

\* a coroutine awaiting _get_file is resumed with the future's result
CallerResume(p) ==
    /\ proc[p].pc = "fetching"
    /\ proc[p].handler = "none"
    /\ Ready(p)
    /\ futs' = Woken(p)
    /\ proc' = [proc EXCEPT ![p].pc = "got", ![p].content = Awaited(p)]
    /\ hist' = HistReturn(p, Awaited(p))
    /\ UNCHANGED <<lru, links, entries>>

\* the answers drawn for the cache's callers: two bodies per url, so that a
\* second fetch of a url can bring bytes that differ from the first
CacheBodies == {"whl_meta", "whl_odd", "tgz_both", "tgz_nested", "zip_bare", "zip_nested"}

NextCache ==
    \/ \E p \in Procs, url \in Urls : Call(p, url)
    \/ \E f \in futs, v \in CacheBodies : TaskDone(f, v)
    \/ \E p \in Procs : CallerResume(p)

SpecCache == Init /\ [][NextCache]_vars

---------------------------------------------------------------------------
(* The request handlers project and dist_file.                             *)

Dists == {F_WHL, F_TGZ, F_ZIP, F_EXE}

README == <<"R", "E", "A", "D", "M", "E">>

Arcnames == {METADATA, SETUP_PY, README}

\* the requests a client makes: the first client asks for anything, the second
\* keeps asking for setup.py of the tar sdist, which gives the first one's
\* fetches a concurrent call of _get_file to share futures and the cache with
DistRequests(p) ==
    IF p = "p1"
    THEN Dists \X Arcnames
    ELSE {<<F_TGZ, SETUP_PY>>}

\* what parse_archive_links may give for the project
Listings == {<<L_EXE, L_ZIP, L_TGZ, L_WHL>>, <<L_TGZ>>}

ListingOutcomes == {"ok", "bad_status", "transport_error"}

Outcomes == {"whl_meta", "whl_odd", "tgz_both", "tgz_nested", "tgz_other",
             "zip_bare", "zip_nested", "html", FAILED}

IoOutcomes == {"ok", "OSError"}

\* the end of dist_file, given how entry.read_file ended: Response(content),
\* the 404 of the except FileNotFoundError clause, or the exception leaves the
\* handler uncaught
finish(q, exc, data) ==
    [q EXCEPT
       !.pc = "done",
       !.raised = IF exc \in {"none", "FileNotFoundError"} THEN "none" ELSE exc,
       !.resp = CASE exc = "none" -> [status |-> 200, body |-> data]
                  [] exc = "FileNotFoundError" ->
                        [status |-> 404, body |-> "dist content not found"]
                  [] OTHER -> [status |-> 500, body |-> "Internal Server Error"]]

\* read_file from the return of await _get_file(...) on: the exception of a
\* failed fetch propagates; Wheel and ZipSdist read the member at once;
\* TarGzSdist goes on to its temporary directory
after_fetch(q, content) ==
    IF content = FAILED
    THEN finish([q EXCEPT !.content = content], "TransportError", "none")
    ELSE CASE q.entry.cls = "Wheel" ->
                LET r == wheel_read(q.entry, content)
                IN  finish([q EXCEPT !.content = content, !.tried = r.tried], r.exc, r.data)
           [] q.entry.cls = "ZipSdist" ->
                LET r == zip_read(q.entry, content, q.arcname)
                IN  finish([q EXCEPT !.content = content, !.tried = r.tried], r.exc, r.data)
           [] OTHER -> [q EXCEPT !.pc = "tgz_enter", !.content = content]

\* entry.read_file(arcname) up to its first suspension, for the coroutine p
\* whose state is q
read_file(p, q) ==
    IF ~allowed(q.entry.cls, q.arcname)
    THEN /\ lru' = lru
         /\ futs' = futs
         /\ proc' = [proc EXCEPT ![p] = finish(q, "FileNotFoundError", "none")]
    ELSE LET r == get_file(q.entry.link.url, p)
         IN  /\ lru' = r.lru
             /\ futs' = r.futs
             /\ proc' = [proc EXCEPT ![p] =
                           IF r.outcome = "hit"
                           THEN after_fetch([q EXCEPT !.url = q.entry.link.url], r.val)
                           ELSE [q EXCEPT !.pc = "fetching",
                                          !.url = q.entry.link.url,
                                          !.fetches = IF r.outcome = "miss" THEN 1 ELSE 0]]

\* a request for /{project}/: the handler awaits the listing query
RequestProject(p) ==
    /\ proc[p].pc \in {"idle", "done"}
    /\ Quiet
    /\ proc' = [proc EXCEPT ![p] =
                  [IdleProc EXCEPT !.pc = "listing", !.handler = "project", !.queries = 1]]
    /\ UNCHANGED <<lru, futs, hist, links, entries>>

\* a request for /{project}/{dist}/{arcname}: the handler awaits the listing query
RequestDistFile(p, dist, arcname) ==
    /\ proc[p].pc \in {"idle", "done"}
    /\ Quiet
    /\ proc' = [proc EXCEPT ![p] =
                  [IdleProc EXCEPT !.pc = "listing", !.handler = "dist_file",
                                   !.dist = dist, !.arcname = arcname, !.queries = 1]]
    /\ UNCHANGED <<lru, futs, hist, links, entries>>

\* the listing query ends: client.get raised, raise_for_status raised, or the
\* listing was parsed; the handler runs on to its response or its next await
ListingResponse(p, outcome, parsed) ==
    /\ proc[p].pc = "listing"
    /\ Quiet
    /\ LET q == [proc[p] EXCEPT !.listing = outcome]
           exc == IF outcome = "bad_status" THEN "HTTPStatusError" ELSE "TransportError"
           found == iter_simple_entries(PROJECT, parsed)
           hits == {i \in 1..Len(found) : filename(found[i]) = q.dist}
       IN  IF outcome # "ok"
           THEN /\ proc' = [proc EXCEPT ![p] =
                              IF handler_catches(exc)
                              THEN [q EXCEPT !.pc = "done",
                                             !.resp = [status |-> 400, body |-> exc]]
                              ELSE finish(q, exc, "none")]
                /\ UNCHANGED <<lru, futs>>
           ELSE IF q.handler = "project"
           THEN /\ proc' = [proc EXCEPT ![p] =
                              [q EXCEPT !.pc = "done",
                                        !.resp = [status |-> 200, body |-> "project.jinja2"]]]
                /\ UNCHANGED <<lru, futs>>
           ELSE IF hits = {}
           THEN /\ proc' = [proc EXCEPT ![p] =
                              [q EXCEPT !.pc = "done",
                                        !.resp = [status |-> 404, body |-> "dist file not found"]]]
                /\ UNCHANGED <<lru, futs>>
           ELSE read_file(p, [q EXCEPT !.entry = found[SetMin(hits)]])
    /\ UNCHANGED <<hist, links, entries>>

\* a handler awaiting _get_file is resumed with the future's result
HandlerResume(p) ==
    /\ proc[p].pc = "fetching"
    /\ proc[p].handler = "dist_file"
    /\ Quiet
    /\ Ready(p)
    /\ futs' = Woken(p)
    /\ proc' = [proc EXCEPT ![p] = after_fetch(proc[p], Awaited(p))]
    /\ UNCHANGED <<lru, hist, links, entries>>

\* TarGzSdist.read_file enters with tempfile.TemporaryDirectory()
TgzAcquire(p, io) ==
    /\ proc[p].pc = "tgz_enter"
    /\ proc' = [proc EXCEPT ![p] =
                  IF io = "ok"
                  THEN [proc[p] EXCEPT !.pc = "tgz_held", !.td = TRUE]
                  ELSE finish(proc[p], io, "none")]
    /\ UNCHANGED <<lru, futs, hist, links, entries>>

\* tarfile.open, _find_file_in_tgz and tf.extract(member, path=td); an
\* exception leaves both with blocks
TgzExtract(p, io) ==
    /\ proc[p].pc = "tgz_held"
    /\ LET q == proc[p]
           blob == Blob(q.content)
           f == find_file_in_tgz(blob.members, stem(q.entry), q.arcname)
           exc == IF blob.fmt # "tgz" THEN "ReadError"
                  ELSE IF f.exc # "none" THEN f.exc
                  ELSE io
           tried == IF blob.fmt # "tgz" THEN <<>> ELSE f.tried
       IN  proc' = [proc EXCEPT ![p] =
                      IF exc = "ok"
                      THEN [q EXCEPT !.pc = "tgz_extracted", !.tried = tried,
                                     !.tdfiles = f.found]
                      ELSE finish([q EXCEPT !.tried = tried,
                                            !.td = TemporaryDirectoryExit(exc)],
                                  exc, "none")]
    /\ UNCHANGED <<lru, futs, hist, links, entries>>

\* the first file found under td is read back, and the with block is left
TgzRead(p, io) ==
    /\ proc[p].pc = "tgz_extracted"
    /\ LET q == proc[p]
           exc == IF io = "ok" THEN "none" ELSE io
           data == IF io = "ok" THEN (CHOOSE m \in q.tdfiles : TRUE).data ELSE "none"
       IN  proc' = [proc EXCEPT ![p] =
                      finish([q EXCEPT !.td = TemporaryDirectoryExit(exc),
                                       !.tdfiles = IF TemporaryDirectoryExit(exc) THEN @ ELSE {}],
                             exc, data)]
    /\ UNCHANGED <<lru, futs, hist, links, entries>>

Next ==
    \/ RequestProject("p1")
    \/ \E p \in Procs : \E r \in DistRequests(p) : RequestDistFile(p, r[1], r[2])
    \/ \E p \in Procs, outcome \in ListingOutcomes, parsed \in Listings :
          ListingResponse(p, outcome, parsed)
    \/ \E f \in futs, v \in Outcomes : TaskDone(f, v)
    \/ \E p \in Procs : HandlerResume(p)
    \/ \E p \in Procs, io \in IoOutcomes : TgzAcquire(p, io)
    \/ \E p \in Procs, io \in IoOutcomes : TgzExtract(p, io)
    \/ \E p \in Procs, io \in IoOutcomes : TgzRead(p, io)

Spec == Init /\ [][Next]_vars

---------------------------------------------------------------------------
(* _iter_simple_entries on its own: a listing goes in, the entries come    *)
(* out.                                                                    *)

MaxLinks == 2

ClassifyNames ==
    {F_WHL, F_TGZ, F_ZIP, F_EXE,
     <<"p", ".", "g", "z">>,
     <<"p", ".", "t", "a", "r">>,
     <<"w", "h", "l">>,
     <<"p", ".", "w", "h", "l", ".", "z", "i", "p">>}

ClassifyLinks ==
    {[filename |-> n, url |-> "u/a"] : n \in ClassifyNames}
        \cup {[filename |-> F_WHL, url |-> "u/b"]}

InitClassify ==
    /\ lru = <<>>
    /\ futs = {}
    /\ proc = [p \in Procs |-> IdleProc]
    /\ hist = HistInit
    /\ links \in UNION {[1..n -> ClassifyLinks] : n \in 0..MaxLinks}
    /\ entries = <<>>

\* _iter_simple_entries from the parsed links to its return
IterSimpleEntries ==
    /\ links # <<>>
    /\ entries = <<>>
    /\ entries' = iter_simple_entries(PROJECT, links)
    /\ UNCHANGED <<lru, futs, proc, hist, links>>

SpecClassify == InitClassify /\ [][IterSimpleEntries]_vars

---------------------------------------------------------------------------
(* The claims about _get_file, checked under SpecCache.                    *)

Calling(p) == proc[p].handler = "none" /\ proc[p].pc \in {"fetching", "got"}

\* C2, as stated: once a call of _get_file(url) has returned, a later call for
\* the url with no eviction of the url after that return issues no network
\* call and returns the bytes the earlier call returned.
C2_AsStated ==
    \A p \in Procs :
        (Calling(p) /\ hist.call[p].prior # "none") =>
            /\ proc[p].fetches = 0
            /\ (proc[p].pc = "got" => proc[p].content = hist.call[p].prior)

\* C2, amended: once a call of _get_file(url) has returned whose cache entry
\* was not evicted while the call was in flight, a later call for the url with
\* no eviction of the url in between issues no network call and returns the
\* bytes the earlier call returned.
C2_CacheIdempotence ==
    \A p \in Procs :
        (Calling(p) /\ hist.call[p].priorFresh # "none") =>
            /\ proc[p].fetches = 0
            /\ (proc[p].pc = "got" => proc[p].content = hist.call[p].priorFresh)

\* C2's case: a call made after an earlier call for the same url returned
\* has itself returned
C2_Witness ==
    \E p \in Procs :
        /\ Calling(p)
        /\ proc[p].pc = "got"
        /\ hist.call[p].priorFresh # "none"

\* C3: the cache never holds more than maxsize urls; the urls it holds are
\* exactly the most recently requested ones (hits and misses both count as
\* requests), so every eviction removes the least recently used url; and a
\* call for a url that is not among them, never requested or evicted, issues
\* a network call, while a call for one of them issues none.
C3_CacheBound ==
    /\ Len(lru) <= maxsize
    /\ {lru[i] : i \in 1..Len(lru)} = MRU(hist.recency)
    /\ \A p \in Procs :
         Calling(p) => (proc[p].fetches = IF hist.call[p].wasRecent THEN 0 ELSE 1)

\* C3's case: with the cache full, a url requested before and evicted since
\* is fetched again
C3_Witness ==
    \E p \in Procs :
        /\ Calling(p)
        /\ Len(lru) = maxsize
        /\ hist.call[p].wasUsed
        /\ ~hist.call[p].wasRecent
        /\ proc[p].fetches = 1

\* C4, as stated: calls of _get_file for one url that run concurrently, each
\* suspended until the network answers, all return the same bytes, whatever
\* calls for other urls are interleaved with them.
C4_AsStated ==
    \A p \in Procs : Cardinality(hist.call[p].concVals) <= 1

\* C4, amended: calls of _get_file for one url that run concurrently, with no
\* eviction of the url between the first being made and the last being made,
\* all return the same bytes; and the cache holds at most one value per url
\* at any time, exactly one for each url it holds.
C4_ConcurrentCalls ==
    /\ \A p \in Procs : Cardinality(hist.call[p].shareVals) <= 1
    /\ \A u \in Urls :
         Cardinality({f \in futs : f.cached /\ f.url = u}) = IF InCache(u) THEN 1 ELSE 0
    /\ \A i, j \in 1..Len(lru) : lru[i] = lru[j] => i = j

\* C4's case: two concurrent calls for one url have both returned
C4_Witness ==
    \E p, q \in Procs :
        /\ p # q
        /\ q \in hist.call[p].overlap
        /\ proc[p].pc = "got"
        /\ proc[q].pc = "got"
        /\ proc[p].fetches + proc[q].fetches = 1
        /\ proc[p].content = proc[q].content

---------------------------------------------------------------------------
(* The claim about _iter_simple_entries, checked under SpecClassify.       *)

\* name is some prefix followed by suffix
HasSuffix(name, suffix) == \E k \in 0..Len(name) : name = SubSeq(name, 1, k) \o suffix

SuffixKind(name) ==
    IF HasSuffix(name, WHL) THEN "Wheel"
    ELSE IF HasSuffix(name, TAR_GZ) THEN "TarGzSdist"
    ELSE IF HasSuffix(name, ZIP) THEN "ZipSdist"
    ELSE "UnsupportedEntry"

\* C8: _iter_simple_entries returns one entry per link, in the reverse of the
\* listing's order, each of the class its link's filename suffix decides:
\* .whl a Wheel, else .tar.gz a TarGzSdist, else .zip a ZipSdist, else an
\* UnsupportedEntry.
C8_Classification ==
    entries # <<>> =>
        /\ Len(entries) = Len(links)
        /\ \A i \in 1..Len(links) :
             /\ entries[i].link = links[Len(links) + 1 - i]
             /\ entries[i].project = PROJECT
             /\ entries[i].cls = SuffixKind(links[Len(links) + 1 - i].filename)

\* C8's case: a listing of two different links of different kinds has been
\* classified
C8_Witness ==
    /\ Len(entries) = 2
    /\ entries[1].link # entries[2].link
    /\ entries[1].cls = "TarGzSdist"
    /\ entries[2].cls = "UnsupportedEntry"

---------------------------------------------------------------------------
(* The claims about read_file and the handlers, checked under Spec.        *)

\* the allow-lists as the claims give them
AllowList(cls) ==
    CASE cls = "Wheel" -> {METADATA}
      [] cls = "TarGzSdist" -> {PYPROJECT_TOML, SETUP_CFG, SETUP_PY}
      [] cls = "ZipSdist" -> {PYPROJECT_TOML, SETUP_CFG, SETUP_PY}
      [] OTHER -> {}

NotFound == [status |-> 404, body |-> "dist content not found"]

\* dist_file has called read_file on an entry with a name outside its allow-list
Refused(q) ==
    /\ q.pc = "done"
    /\ q.handler = "dist_file"
    /\ q.entry # NoEntry
    /\ q.arcname \notin AllowList(q.entry.cls)

\* C1: for an entry of any class and a name outside the class's allow-list,
\* read_file fails as NotFound, issues no network fetch, and leaves the
\* cache (its keys, their order and their futures) as it was.
C1_AllowList ==
    /\ [](\A p \in Procs :
            Refused(proc[p]) =>
                /\ proc[p].resp = NotFound
                /\ proc[p].fetches = 0
                /\ proc[p].content = "none"
                /\ proc[p].tried = <<>>)
    /\ [][\A p \in Procs :
            (proc[p].pc = "listing" /\ Refused(proc'[p])) => (lru' = lru /\ futs' = futs)]_vars

\* C1's case: with urls in the cache, a name outside the allow-list has been
\* asked of a Wheel
C1_Witness ==
    \E p \in Procs :
        /\ Refused(proc[p])
        /\ proc[p].entry.cls = "Wheel"
        /\ lru # <<>>

\* read_file of an entry of class cls went as far as opening an archive of
\* format fmt for an allow-listed name
Opened(q, cls, fmt) ==
    /\ q.pc = "done"
    /\ q.handler = "dist_file"
    /\ q.entry.cls = cls
    /\ q.arcname \in AllowList(cls)
    /\ q.content \notin {"none", FAILED}
    /\ Blob(q.content).fmt = fmt

DataOf(members, path) == (CHOOSE m \in Named(members, path) : TRUE).data

\* C5, as stated: Wheel.read_file("METADATA") on an archive without the member
\* "<name>-<version>.dist-info/METADATA" fails as NotFound, which dist_file
\* answers with the 404 "dist content not found".
C5_AsStated ==
    \A p \in Procs :
        (/\ Opened(proc[p], "Wheel", "zip")
         /\ Named(Blob(proc[p].content).members,
                  <<"p", "-", "1">> \o DIST_INFO_METADATA) = {})
            => proc[p].resp = NotFound

\* the filename without its last two dot-separated segments
StemOf(name) ==
    LET dots == Positions(name, DOT)
        last == SetMax(dots)
        prev == SetMax(dots \ {last})
    IN  SubSeq(name, 1, prev - 1)

\* C6: TarGzSdist.read_file for an allow-listed name looks up the bare name,
\* then "<stem>/<name>", and returns the complete bytes of the first of the two
\* that is a member of the archive; when neither is, it fails as NotFound.
\* (An I/O error of the temporary directory ends the call with that error.)
C6_TarGzLookup ==
    \A p \in Procs :
        Opened(proc[p], "TarGzSdist", "tgz") =>
            LET q == proc[p]
                members == Blob(q.content).members
                nested == StemOf(q.entry.link.filename) \o SLASH \o q.arcname
            IN  IF q.raised = "OSError"
                THEN q.resp.status = 500
                ELSE IF Named(members, q.arcname) # {}
                THEN /\ q.tried = <<q.arcname>>
                     /\ q.resp = [status |-> 200, body |-> DataOf(members, q.arcname)]
                ELSE IF Named(members, nested) # {}
                THEN /\ q.tried = <<q.arcname, nested>>
                     /\ q.resp = [status |-> 200, body |-> DataOf(members, nested)]
                ELSE /\ q.tried = <<q.arcname, nested>>
                     /\ q.resp = NotFound

\* C6's case: an archive holding the name only under the stem has been read
C6_Witness ==
    \E p \in Procs :
        /\ Opened(proc[p], "TarGzSdist", "tgz")
        /\ proc[p].content = "tgz_nested"
        /\ proc[p].resp = [status |-> 200, body |-> "t_nested2"]

\* C7: ZipSdist.read_file for an allow-listed name makes one lookup, of the
\* bare name: it returns that member's bytes, and fails as NotFound when there
\* is no such member, whatever else the archive holds.
C7_ZipLookup ==
    \A p \in Procs :
        Opened(proc[p], "ZipSdist", "zip") =>
            LET q == proc[p]
                members == Blob(q.content).members
            IN  /\ q.tried = <<q.arcname>>
                /\ q.resp = IF Named(members, q.arcname) # {}
                            THEN [status |-> 200, body |-> DataOf(members, q.arcname)]
                            ELSE NotFound

\* C7's case: an archive holding the name only under the stem has been read
C7_Witness ==
    \E p \in Procs :
        /\ Opened(proc[p], "ZipSdist", "zip")
        /\ Named(Blob(proc[p].content).members,
                 <<"p", "-", "1", ".", "0">> \o SLASH \o proc[p].arcname) # {}
        /\ Named(Blob(proc[p].content).members, proc[p].arcname) = {}
        /\ proc[p].resp = NotFound

\* a handler whose listing query failed has ended
ListingFailed(q, how) == q.pc = "done" /\ q.listing = how

\* C9, as stated: when the listing query fails, by a bad status or by a
\* transport error, the handler answers with a client error, nothing is left
\* uncaught, the query was issued once and no archive was fetched.
C9_AsStated ==
    \A p \in Procs :
        (ListingFailed(proc[p], "bad_status") \/ ListingFailed(proc[p], "transport_error")) =>
            /\ proc[p].resp.status \in 400..499
            /\ proc[p].raised = "none"
            /\ proc[p].queries = 1
            /\ proc[p].fetches = 0

\* C9, amended: when the listing query fails by a bad status, the handler
\* answers 400 and nothing is left uncaught; when it fails by a transport
\* error, the exception leaves the handler uncaught; either way the query was
\* issued once and no archive was fetched.
C9_ListingFailure ==
    \A p \in Procs :
        /\ ListingFailed(proc[p], "bad_status") =>
              /\ proc[p].resp.status = 400
              /\ proc[p].raised = "none"
        /\ ListingFailed(proc[p], "transport_error") =>
              /\ proc[p].resp.status = 500
              /\ proc[p].raised = "TransportError"
        /\ (ListingFailed(proc[p], "bad_status") \/ ListingFailed(proc[p], "transport_error")) =>
              /\ proc[p].queries = 1
              /\ proc[p].fetches = 0
              /\ proc[p].content = "none"
              /\ proc[p].url = "none"

\* C9's case: one handler's query has failed by a bad status, the other's by
\* a transport error
C9_Witness ==
    \E p, q \in Procs :
        /\ ListingFailed(proc[p], "bad_status")
        /\ ListingFailed(proc[q], "transport_error")

\* C10: TarGzSdist.read_file holds its temporary directory only between the
\* return of the fetch and its own end: never before the archive's bytes are
\* there, never while it awaits the network, and never once it has ended,
\* however it ended.
C10_TempDir ==
    \A p \in Procs :
        /\ proc[p].td =>
              /\ proc[p].pc \in {"tgz_held", "tgz_extracted"}
              /\ proc[p].entry.cls = "TarGzSdist"
              /\ proc[p].content \notin {"none", PENDING, FAILED}
        /\ proc[p].tdfiles # {} => proc[p].td

\* C10's case: one call holds the directory with the member extracted, and
\* another has ended on a corrupt archive
C10_Witness ==
    \E p, q \in Procs :
        /\ proc[p].pc = "tgz_extracted"
        /\ proc[p].td
        /\ proc[q].pc = "done"
        /\ proc[q].raised = "ReadError"

=============================================================================
